---- MODULE Spec2Model ----
(***************************************************************************)
(* OCPP client harness: scripts/validate_config.py (ConfigurationValidator *)
(* and its main) and scripts/simulate_meter_values.py                      *)
(* (MeterValueSimulator), run against a central server whose replies are   *)
(* the nondeterministic environment.                                       *)
(*                                                                         *)
(* One step of the model is the code a coroutine runs between two awaits.  *)
(* asyncio.sleep awaits change nothing and are folded into the send that   *)
(* follows them.  CancelledError is a BaseException (Python >= 3.8), so    *)
(* the `except Exception` handlers do not catch the suite cancellation.    *)
(***************************************************************************)
EXTENDS Integers, Sequences, FiniteSets, TLC

\* ------------------------------------------------------------------ bounds
\* Deviations of the server and of the connection in one run: a reply that
\* is late, missing, an error envelope, unparsable, carries a foreign id or
\* a defective GetConfiguration payload, and a dropped connection.  The
\* status a server gives to a ChangeConfiguration is free and is not counted.
MaxFaults == 1

\* Iterations of simulate_charging_session's loop (the code's clock allows
\* duration_seconds / interval_seconds of them at most).
MaxTicks == 2

\* --------------------------------------------------------------- constants
NumTests == 8            \* the tests list of run_all_tests
MinKeys == 10            \* test_get_all_configuration: at least 10 keys
CallResult == 3          \* message type of a result envelope
CallType == 2            \* message type of a call envelope
None == "None"           \* Python's None (an absent field read with .get)
NoNum == 0 - 1           \* None where the model holds a number

\* ------------------------------------------------------- configuration keys
HeartbeatInterval == "HeartbeatInterval"
MeterValueSampleInterval == "MeterValueSampleInterval"
LocalAuthorizeOffline == "LocalAuthorizeOffline"
ChargeProfileMaxStackLevel == "ChargeProfileMaxStackLevel"
SupportedFeatureProfiles == "SupportedFeatureProfiles"
MeterValuesSampledData == "MeterValuesSampledData"
WebSocketPingInterval == "WebSocketPingInterval"
LightIntensity == "LightIntensity"
UnknownKey == "UnknownKey"

essential_keys ==
    <<HeartbeatInterval, MeterValueSampleInterval, LocalAuthorizeOffline,
      ChargeProfileMaxStackLevel>>

readonly_keys == {ChargeProfileMaxStackLevel, SupportedFeatureProfiles}

ValidCSV == "Energy.Active.Import.Register,Power.Active.Import"
InvalidCSV == "Energy.Active.Import.Register,InvalidMeasurand"

test_cases ==
    << <<HeartbeatInterval, "not-a-number">>,
       <<LightIntensity, "150">>,
       <<LocalAuthorizeOffline, "yes">>,
       <<UnknownKey, "value">> >>

TestNames ==
    <<"Get all configuration", "Get specific keys", "Change configuration",
      "Read-only rejection", "Invalid value rejection", "CSV validation",
      "Reboot required", "Configuration persistence">>

Statuses == {"Accepted", "RebootRequired", "Rejected", "NotSupported"}

\* ------------------------------------------------------------- the server
\* The server under test is the environment.  Its key set and the values it
\* starts with are not in the repository; these are the OCPP 1.6 core keys.
ServerKeyList ==
    <<HeartbeatInterval, MeterValueSampleInterval, LocalAuthorizeOffline,
      ChargeProfileMaxStackLevel, SupportedFeatureProfiles,
      MeterValuesSampledData, WebSocketPingInterval, LightIntensity,
      "ConnectionTimeOut", "NumberOfConnectors", "AuthorizeRemoteTxRequests",
      "ClockAlignedDataInterval">>

ServerKeys == {ServerKeyList[i] : i \in 1..Len(ServerKeyList)}

\* A server's value for key k that no call of the harness can change, and
\* the value of the keys that can change before the run.
OrigValue(k) ==
    CASE k = HeartbeatInterval -> "300"
      [] k = MeterValueSampleInterval -> "60"
      [] k = LocalAuthorizeOffline -> "true"
      [] k = ChargeProfileMaxStackLevel -> "10"
      [] k = SupportedFeatureProfiles -> "Core"
      [] k = MeterValuesSampledData -> "Energy.Active.Import.Register"
      [] k = WebSocketPingInterval -> "60"
      [] k = LightIntensity -> "50"
      [] OTHER -> "1"

\* The keys whose value the model's server holds: the shared keys the
\* validator's tests write valid values to.  A change of another key is
\* answered and not kept.
StoredKeys ==
    {HeartbeatInterval, MeterValuesSampledData, WebSocketPingInterval,
     MeterValueSampleInterval}

OrigStore == [k \in StoredKeys |-> OrigValue(k)]

ValueOf(st, k) == IF k \in StoredKeys THEN st[k] ELSE OrigValue(k)

\* ---------------------------------------------------------------- messages
\* An inbound message as json.loads returns it.  mtype is response[0]; a
\* payload field the message does not carry reads as .get's default.
\* mtype = 0 stands for a JSON value that is truthy and cannot be indexed
\* with [0] (a non-empty object): inspecting it raises.
Msg(t, i, st, cfg, unk, tx) ==
    [mtype |-> t, id |-> i, status |-> st, configurationKey |-> cfg,
     unknownKey |-> unk, transactionId |-> tx]

\* What send_get_configuration / send_change_configuration return on a
\* timeout or an exception: the empty dict.
Empty == Msg(-1, 0, None, <<>>, {}, NoNum)

Malformed(i) == Msg(0, i, None, <<>>, {}, NoNum)
\* An error envelope [4, id, errorCode, errorDescription, details].
ErrorMsg(i) == Msg(4, i, None, <<>>, {}, NoNum)
StatusResult(i, st) == Msg(CallResult, i, st, <<>>, {}, NoNum)
ConfigResult(i, cfg, unk) == Msg(CallResult, i, None, cfg, unk, NoNum)
\* A result whose payload is {"transactionId": tx} (NoNum: the field is absent).
PlainResult(i, tx) == Msg(CallResult, i, None, <<>>, {}, tx)

Entry(k, v, ro) == [key |-> k, value |-> v, readonly |-> ro]

\* An outbound call [2, request_id, action, payload].
Call(i, a, p) == [mtype |-> CallType, id |-> i, action |-> a, payload |-> p]

\* No call built yet.
NoCall == Call(0, None, [key |-> <<>>])

\* ------------------------------------------------------ the server's replies
SeqToSet(q) == {q[i] : i \in 1..Len(q)}

\* The entries of the keys of q the server implements, with the values of st.
KnownEntries(q, st) ==
    LET known == SelectSeq(q, LAMBDA k : k \in ServerKeys)
    IN  [i \in 1..Len(known) |->
            Entry(known[i], ValueOf(st, known[i]), known[i] \in readonly_keys)]

\* The payloads a server may give to GetConfiguration without keys: its full
\* key set, and three defective ones (too few keys, an essential key
\* missing, a read-only key not flagged).
GetAllPayloads(st) ==
    LET full == KnownEntries(ServerKeyList, st)
    IN  { full,
          SubSeq(full, 1, MinKeys - 1),
          SelectSeq(full, LAMBDA e : e.key # LocalAuthorizeOffline),
          [i \in 1..Len(full) |->
              IF full[i].key = SupportedFeatureProfiles
              THEN Entry(full[i].key, full[i].value, FALSE) ELSE full[i]] }

\* The entries es under other names: each under the name nm[i] (entries past
\* the end of nm keep their name).
Relabelled(es, nm) ==
    [i \in 1..Len(es) |->
        IF i <= Len(nm) THEN Entry(nm[i], es[i].value, es[i].readonly) ELSE es[i]]

\* The results a server may give to GetConfiguration with keys q: the
\* entries with its current values, or with the values it started with (a
\* server that exposes a change it does not hold, or holds one it does not
\* expose), its entries under the name of a key that was not requested, and
\* its entries under the first names requested, implemented or not.
GetKeysPayloads(q, st) ==
    LET known == KnownEntries(q, st)
    IN  { known, KnownEntries(q, OrigStore),
          Relabelled(known, [i \in 1..Len(known) |-> "ConnectionTimeOut"]),
          Relabelled(known, q) }

UnknownOf(q) == {k \in SeqToSet(q) : k \notin ServerKeys}

\* The status a server gives to ChangeConfiguration(k, v): a key it treats as
\* read-only is Rejected; a read-only key it does not protect is Accepted;
\* any other key gets any status.
ChangeStatuses(k, ro) ==
    IF k \in ro THEN {"Rejected"}
    ELSE IF k \in readonly_keys THEN {"Accepted"}
    ELSE Statuses

\* The server's store after ChangeConfiguration(k, v) answered with status.
Applied(st, k, v, status) ==
    IF status \in {"Accepted", "RebootRequired"} /\ k \in StoredKeys
    THEN [st EXCEPT ![k] = v] ELSE st

\* The transaction ids a server assigns.
TxIds == {0, 42}

\* What the server does with a call: the reply it puts on the connection
\* (replied = FALSE: none), its store afterwards, and whether the reply
\* deviates (fault).  A result that carries the call's id and the server's
\* current values does not; a foreign id (0), a defective payload, an error
\* envelope, an unparsable reply and no reply do, and the last three leave
\* the store alone.
Reply(m, st, f) == [replied |-> TRUE, msg |-> m, store |-> st, fault |-> f]

ServerReplies(req, st, ro) ==
    LET ids == {req.id, 0}
        key == req.payload.key
        others == { Reply(ErrorMsg(req.id), st, TRUE),
                    Reply(Malformed(req.id), st, TRUE),
                    [replied |-> FALSE, msg |-> Empty, store |-> st, fault |-> TRUE] }
        honest == IF key = <<>> THEN KnownEntries(ServerKeyList, st)
                  ELSE KnownEntries(key, st)
    IN  IF req.action = "GetConfiguration"
        THEN { Reply(ConfigResult(i, cfg, UnknownOf(key)), st,
                     i # req.id \/ cfg # honest) :
                 i \in ids,
                 cfg \in (IF key = <<>> THEN GetAllPayloads(st)
                          ELSE GetKeysPayloads(key, st)) } \cup others
        ELSE IF req.action = "ChangeConfiguration"
        THEN { Reply(StatusResult(i, s), Applied(st, key, req.payload.value, s),
                     i # req.id) :
                 i \in ids, s \in ChangeStatuses(key, ro) } \cup others
        ELSE IF req.action = "StartTransaction"
        THEN { Reply(PlainResult(i, tx), st, i # req.id \/ tx = NoNum) :
                 i \in ids, tx \in TxIds \cup {NoNum} } \cup others
        ELSE { Reply(PlainResult(i, NoNum), st, i # req.id) : i \in ids } \cup others

\* ------------------------------------------------- the scenarios' decisions
\* `response and response[0] == 3`.  Inspecting a message that cannot be
\* indexed raises (Raises); the empty dict is falsy and is not inspected.
Raises(r) == r.mtype = 0
IsCallResult(r) == r.mtype = CallResult

\* What a scenario does with the response to its call c: it issues another
\* call (k = "call": c, and its locals original_value -> ov, all_passed ->
\* ap), returns res having appended (app = "T" / "F") or not (app = "-") to
\* test_results, or raises.
NextCall(c, ov, ap) == [k |-> "call", c |-> c, ov |-> ov, ap |-> ap, res |-> FALSE, app |-> "-"]
Return(res, app) == [k |-> "ret", c |-> 0, ov |-> None, ap |-> TRUE, res |-> res, app |-> app]
Raise == [k |-> "raise", c |-> 0, ov |-> None, ap |-> TRUE, res |-> FALSE, app |-> "-"]

KeyNames(cfg) == {cfg[i].key : i \in 1..Len(cfg)}

test_get_all_configuration(c, r, ov, ap) ==
    IF Raises(r) THEN Raise
    ELSE IF IsCallResult(r)
    THEN LET config_keys == r.configurationKey
         IN  IF Len(config_keys) < MinKeys THEN Return(FALSE, "-")
             ELSE IF \E i \in 1..Len(essential_keys) :
                        essential_keys[i] \notin KeyNames(config_keys)
             THEN Return(FALSE, "-")
             ELSE IF \E i \in 1..Len(config_keys) :
                        /\ config_keys[i].key \in readonly_keys
                        /\ ~config_keys[i].readonly
             THEN Return(FALSE, "-")
             ELSE Return(TRUE, "T")
    ELSE Return(FALSE, "F")

\* test_get_specific_keys as it would be if an empty response (a timeout)
\* were let through as a pass.
test_get_specific_keys_lenient(c, r, ov, ap) ==
    IF Raises(r) THEN Raise
    ELSE IF IsCallResult(r)
    THEN IF Len(r.configurationKey) # 2 THEN Return(FALSE, "-")
         ELSE IF UnknownKey \notin r.unknownKey THEN Return(FALSE, "-")
         ELSE Return(TRUE, "T")
    ELSE Return(TRUE, "T")

test_get_specific_keys(c, r, ov, ap) ==
    IF Raises(r) THEN Raise
    ELSE IF IsCallResult(r)
    THEN IF Len(r.configurationKey) # 2 THEN Return(FALSE, "-")
         ELSE IF UnknownKey \notin r.unknownKey THEN Return(FALSE, "-")
         ELSE Return(TRUE, "T")
    ELSE Return(FALSE, "F")

\* `if original_value:`
Truthy(v) == v # None /\ v # ""

test_change_configuration(c, r, ov, ap) ==
    CASE c = 1 ->
           IF Raises(r) THEN Raise
           ELSE IF IsCallResult(r) /\ r.configurationKey # <<>>
           THEN NextCall(2, r.configurationKey[1].value, ap)
           ELSE NextCall(2, None, ap)
      [] c = 2 ->
           IF Raises(r) THEN Raise
           ELSE IF IsCallResult(r)
           THEN IF r.status \in {"Accepted", "RebootRequired"}
                THEN NextCall(3, ov, ap)
                ELSE Return(FALSE, "-")
           ELSE Return(FALSE, "F")
      [] c = 3 ->
           IF Raises(r) THEN Raise
           ELSE IF IsCallResult(r)
           THEN IF r.configurationKey # <<>> /\ r.configurationKey[1].value = "900"
                THEN IF Truthy(ov) THEN NextCall(4, ov, ap)
                     ELSE Return(TRUE, "T")
                ELSE Return(FALSE, "-")
           ELSE Return(FALSE, "F")
      [] OTHER -> Return(TRUE, "T")   \* c = 4: the restore's response is not read

test_readonly_rejection(c, r, ov, ap) ==
    IF Raises(r) THEN Raise
    ELSE IF IsCallResult(r)
    THEN IF r.status = "Rejected" THEN Return(TRUE, "T") ELSE Return(FALSE, "F")
    ELSE Return(FALSE, "F")

\* test_invalid_values as it would be if all_passed were assigned each
\* case's verdict, the earlier cases' verdicts being lost.
test_invalid_values_last(c, r, ov, ap) ==
    IF Raises(r) THEN Raise
    ELSE LET all_passed ==
                 IsCallResult(r) /\ r.status \in {"Rejected", "NotSupported"}
         IN  IF c < Len(test_cases) THEN NextCall(c + 1, ov, all_passed)
             ELSE Return(all_passed, IF all_passed THEN "T" ELSE "F")

test_invalid_values(c, r, ov, ap) ==
    IF Raises(r) THEN Raise
    ELSE LET all_passed ==
                 ap /\ IsCallResult(r) /\ r.status \in {"Rejected", "NotSupported"}
         IN  IF c < Len(test_cases) THEN NextCall(c + 1, ov, all_passed)
             ELSE Return(all_passed, IF all_passed THEN "T" ELSE "F")

\* test_csv_validation as it would be if the invalid-token change had to be
\* rejected.
test_csv_validation_strict(c, r, ov, ap) ==
    IF Raises(r) THEN Raise
    ELSE IF c = 1
    THEN IF IsCallResult(r) /\ r.status \in {"Accepted", "RebootRequired"}
         THEN NextCall(2, ov, ap)
         ELSE Return(FALSE, "-")
    ELSE IF IsCallResult(r) /\ r.status \in {"Rejected", "NotSupported"}
    THEN Return(TRUE, "T")
    ELSE Return(FALSE, "F")

test_csv_validation(c, r, ov, ap) ==
    IF Raises(r) THEN Raise
    ELSE IF c = 1
    THEN IF IsCallResult(r) /\ r.status \in {"Accepted", "RebootRequired"}
         THEN NextCall(2, ov, ap)
         ELSE Return(FALSE, "-")
    ELSE Return(TRUE, "T")

\* test_reboot_required_keys as it would be without its `elif status ==
\* "Accepted"` branch.
test_reboot_required_keys_strict(c, r, ov, ap) ==
    IF Raises(r) THEN Raise
    ELSE IF IsCallResult(r)
    THEN IF r.status = "RebootRequired" THEN Return(TRUE, "T")
         ELSE Return(FALSE, "F")
    ELSE Return(FALSE, "F")

test_reboot_required_keys(c, r, ov, ap) ==
    IF Raises(r) THEN Raise
    ELSE IF IsCallResult(r)
    THEN IF r.status = "RebootRequired" THEN Return(TRUE, "T")
         ELSE IF r.status = "Accepted" THEN Return(TRUE, "T")
         ELSE Return(FALSE, "F")
    ELSE Return(FALSE, "F")

test_persistence(c, r, ov, ap) ==
    IF Raises(r) THEN Raise
    ELSE IF c = 1
    THEN IF ~(IsCallResult(r) /\ r.status \in {"Accepted", "RebootRequired"})
         THEN Return(FALSE, "-")
         ELSE NextCall(2, ov, ap)
    ELSE IF IsCallResult(r)
    THEN IF r.configurationKey # <<>> /\ r.configurationKey[1].value = "45"
         THEN Return(TRUE, "T")
         ELSE Return(FALSE, "-")
    ELSE Return(FALSE, "-")

\* The tests list of run_all_tests, in its order.
TestStep(t, c, r, ov, ap) ==
    CASE t = 1 -> test_get_all_configuration(c, r, ov, ap)
      [] t = 2 -> test_get_specific_keys(c, r, ov, ap)
      [] t = 3 -> test_change_configuration(c, r, ov, ap)
      [] t = 4 -> test_readonly_rejection(c, r, ov, ap)
      [] t = 5 -> test_invalid_values(c, r, ov, ap)
      [] t = 6 -> test_csv_validation(c, r, ov, ap)
      [] t = 7 -> test_reboot_required_keys(c, r, ov, ap)
      [] OTHER -> test_persistence(c, r, ov, ap)

\* The call a test issues as its call c.
\* send_get_configuration's message (keys = <<>>: no keys, the payload is {})
\* and send_change_configuration's.
Get(i, ks) == Call(i, "GetConfiguration", [key |-> ks])
Change(i, k, v) == Call(i, "ChangeConfiguration", [key |-> k, value |-> v])

TestCall(t, c, ov, i) ==
    CASE t = 1 -> Get(i, <<>>)
      [] t = 2 -> Get(i, <<HeartbeatInterval, UnknownKey, MeterValueSampleInterval>>)
      [] t = 3 /\ c = 1 -> Get(i, <<HeartbeatInterval>>)
      [] t = 3 /\ c = 2 -> Change(i, HeartbeatInterval, "900")
      [] t = 3 /\ c = 3 -> Get(i, <<HeartbeatInterval>>)
      [] t = 3 /\ c = 4 -> Change(i, HeartbeatInterval, ov)
      [] t = 4 -> Change(i, ChargeProfileMaxStackLevel, "20")
      [] t = 5 -> Change(i, test_cases[c][1], test_cases[c][2])
      [] t = 6 /\ c = 1 -> Change(i, MeterValuesSampledData, ValidCSV)
      [] t = 6 /\ c = 2 -> Change(i, MeterValuesSampledData, InvalidCSV)
      [] t = 7 -> Change(i, WebSocketPingInterval, "120")
      [] t = 8 /\ c = 1 -> Change(i, MeterValueSampleInterval, "45")
      [] OTHER -> Get(i, <<MeterValueSampleInterval>>)

\* ------------------------------------------------- the simulator's messages
start_energy_wh == 1000      \* simulate_charging_session: energy_wh, and meterStart
base_power == 7400           \* simulate_charging_session: base_power
voltage == 230               \* simulate_charging_session: voltage
base_temperature == 25       \* simulate_charging_session: 25 + random.uniform(-5, 10)
SecondsPerHour == 3600       \* energy_increment = (power_w * interval_seconds) / 3600
interval_seconds == 5        \* run_tests: simulate_charging_session(interval_seconds=5)
duration_seconds == 30       \* run_tests: simulate_charging_session(duration_seconds=30)

\* Samples of random.uniform(-500, 500), random.uniform(-5, 5) and
\* random.uniform(-5, 10).
PowerVariations == {-500, 0, 500}
VoltageVariations == {-5, 5}
TemperatureVariations == {-5, 10}

\* str(x), the decimal text of the number x.  energy_wh and power_w are
\* whole numbers; current_a, voltage_v and temperature_c are held in tenths
\* (they are floats rounded to one decimal, or whole literals).
Str(x) == [str |-> x]

\* `if current_a:`, `if self.transaction_id:` : None and 0 are falsy.
TruthyNum(x) == x # NoNum /\ x # 0

Sample(v, m, u) == [value |-> Str(v), measurand |-> m, unit |-> u]

\* send_meter_values' message.
MeterValues(i, energy, power, current_a, voltage_v, temperature_c, tx) ==
    LET sampled_values ==
            << Sample(energy, "Energy.Active.Import.Register", "Wh"),
               Sample(power, "Power.Active.Import", "W") >>
            \o (IF TruthyNum(current_a)
                THEN << Sample(current_a, "Current.Import", "A") >> ELSE <<>>)
            \o (IF TruthyNum(voltage_v)
                THEN << Sample(voltage_v, "Voltage", "V") >> ELSE <<>>)
            \o (IF TruthyNum(temperature_c)
                THEN << Sample(temperature_c, "Temperature", "Celsius") >> ELSE <<>>)
    IN  Call(i, "MeterValues",
             [connectorId |-> 1, sampledValue |-> sampled_values,
              transactionId |-> IF TruthyNum(tx) THEN tx ELSE NoNum])

BootNotification(i) ==
    Call(i, "BootNotification",
         [chargePointModel |-> "Simulator", chargePointVendor |-> "Test"])

StartTransaction(i) ==
    Call(i, "StartTransaction",
         [connectorId |-> 1, idTag |-> "TEST-TAG", meterStart |-> start_energy_wh])

StopTransaction(i, tx, meter_stop) ==
    Call(i, "StopTransaction", [transactionId |-> tx, meterStop |-> meter_stop])

\* round(num / den, 1) in tenths, and int(e / 3600) of the energy the model
\* holds in 1/3600 Wh.
Round1(num, den) == (20 * num + den) \div (2 * den)
IntWh(e) == e \div SecondsPerHour

\* One iteration of simulate_charging_session's loop with the variations
\* dp, dv, dt: the energy afterwards and the message of its call.
\* TickEnergy as it would be if the increment were computed from the
\* variation instead of from power_w.
TickEnergyOfVariation(e, dp) == e + dp * interval_seconds

TickEnergy(e, dp) == e + (base_power + dp) * interval_seconds

TickMessage(i, e, dp, dv, dt, tx) ==
    MeterValues(i, IntWh(TickEnergy(e, dp)), base_power + dp,
                Round1(base_power + dp, voltage), 10 * (voltage + dv),
                10 * (base_temperature + dt), tx)

\* ------------------------------------------------------------------- state
VARIABLES
    entry,           \* the script that runs: "validate_config" | "simulate_meter_values"
    pc,              \* the await the script is at: "connect" | "send" | "recv" | "disconnect" | "done"
    websocket,       \* self.websocket: "none" | "open" | "dropped" | "closed"
    test,            \* index in run_all_tests' tests of the test that runs
    call,            \* which call of that test is being made
    original_value,  \* test_change_configuration's local
    all_passed,      \* test_invalid_values' local
    message,         \* the call being made: [2, request_id, action, payload]
    channel,         \* messages the server sent that recv() has not returned yet
    wire,            \* the calls the harness put on the connection, in order
    resolved,        \* calls that consumed an inbound message or a timeout
    store,           \* the server's configuration values
    srv_readonly,    \* the read-only keys whose changes the server rejects
    results,         \* run_all_tests' results
    test_results,    \* self.test_results
    summary,         \* the lines run_all_tests printed as its summary
    restore_reported,\* "Restored original value" was printed
    exit_code,       \* the process exit status (-1: not set yet)
    forwarded,       \* the last response a call took: for which call, with which id
    timeouts,        \* the calls that timed out, of the test whose call resolved last
    suite_timed_out, \* main's asyncio.wait_for expired
    faults,          \* deviations of the server and the connection so far
    step,            \* the simulator's call: "boot" | "meter1" | "start" | "tick" | "stop" | "meter3"
    transaction_id,  \* self.transaction_id (NoNum: None)
    energy_wh,       \* simulate_charging_session's energy_wh, in 1/3600 Wh
    ticks,           \* iterations of simulate_charging_session's loop so far
    args             \* the arguments of a send_meter_values call made on its own

vars ==
    <<entry, pc, websocket, test, call, original_value, all_passed, message,
      channel, wire, resolved, store, srv_readonly, results, test_results,
      summary, restore_reported, exit_code, forwarded, timeouts,
      suite_timed_out, faults, step, transaction_id, energy_wh, ticks,
      args>>

\* The variables of the validator's run and of the simulator's.
progVars ==
    <<test, call, original_value, all_passed, results, test_results, summary,
      restore_reported>>
simVars == <<step, transaction_id, energy_wh, ticks>>

Validator == "validate_config"
Simulator == "simulate_meter_values"

\* request_id = str(uuid.uuid4()): fresh for every call; the model numbers
\* the calls.
request_id == message.id

NoForward == [req |-> 0, id |-> 0, empty |-> TRUE]
Forward(r) == [req |-> request_id, id |-> r.id, empty |-> r = Empty]

\* send_meter_values' parameters; NoNum is None, the default of the last
\* three.  current_a, voltage_v and temperature_c are in tenths.
Args(e, p, c, v, t) ==
    [energy_wh |-> e, power_w |-> p, current_a |-> c, voltage_v |-> v,
     temperature_c |-> t]
NoArgs == Args(NoNum, NoNum, NoNum, NoNum, NoNum)

Init ==
    /\ args = NoArgs
    /\ entry \in {Validator, Simulator}
    /\ pc = "connect"
    /\ websocket = "none"
    /\ test = 0
    /\ call = 0
    /\ original_value = None
    /\ all_passed = TRUE
    /\ message = NoCall
    /\ channel = <<>>
    /\ wire = <<>>
    /\ resolved = 0
    /\ store = OrigStore
    /\ srv_readonly \in (IF entry = Validator THEN SUBSET readonly_keys
                         ELSE {readonly_keys})
    /\ results = <<>>
    /\ test_results = <<>>
    /\ summary = <<>>
    /\ restore_reported = FALSE
    /\ exit_code = -1
    /\ forwarded = NoForward
    /\ timeouts = {}
    /\ suite_timed_out = FALSE
    /\ faults = 0
    /\ step = None
    /\ transaction_id = NoNum
    /\ energy_wh = 0
    /\ ticks = 0

\* ------------------------------------------------------- run_all_tests' end
Min(a, b) == IF a < b THEN a ELSE b

\* for (test_name, result), passed in zip(self.test_results, results)
Summary(tr, res) ==
    [i \in 1..Min(Len(tr), Len(res)) |->
        [name |-> tr[i][1], pass |-> tr[i][2] /\ res[i]]]

\* ExitStatus with any() where the code has all().
ExitStatusAny(tr, res) ==
    IF /\ \E i \in 1..Len(res) : res[i]
       /\ \A i \in 1..Len(tr) : tr[i][2]
    THEN 0 ELSE 1

\* all(results) and all(result for _, result in self.test_results)
ExitStatus(tr, res) ==
    IF /\ \A i \in 1..Len(res) : res[i]
       /\ \A i \in 1..Len(tr) : tr[i][2]
    THEN 0 ELSE 1

\* test_change_configuration: once send_change_configuration has returned
\* from the restore (call 4 of test 3), whatever r it returned,
\* "Restored original value" is printed.
RestoreReported(t, c, r) == t = 3 /\ c = 4

\* ------------------------------------------------ the validator's test loop
\* The response r came back from send_get_configuration or
\* send_change_configuration: the running test goes on to its next await,
\* which is the send of its next call, of the next test's first call, or
\* main's disconnect after the summary.
Deliver(r) ==
    LET o == TestStep(test, call, r, original_value, all_passed)
        res == Append(results, o.res)
        tr == IF o.app = "-" THEN test_results
              ELSE Append(test_results, <<TestNames[test], o.app = "T">>)
    IN  /\ forwarded' = Forward(r)
        /\ restore_reported' = (restore_reported \/ RestoreReported(test, call, r))
        /\ IF o.k = "call"
           THEN /\ call' = o.c
                /\ original_value' = o.ov
                /\ all_passed' = o.ap
                /\ message' = TestCall(test, o.c, o.ov, request_id + 1)
                /\ pc' = "send"
                /\ UNCHANGED <<test, results, test_results, summary, exit_code>>
           ELSE /\ results' = res
                /\ test_results' = tr
                /\ original_value' = None
                /\ all_passed' = TRUE
                /\ IF test < NumTests
                   THEN /\ test' = test + 1
                        /\ call' = 1
                        /\ message' = TestCall(test + 1, 1, None, request_id + 1)
                        /\ pc' = "send"
                        /\ UNCHANGED <<summary, exit_code>>
                   ELSE /\ summary' = Summary(tr, res)
                        /\ exit_code' = ExitStatus(tr, res)
                        /\ pc' = "disconnect"
                        /\ UNCHANGED <<test, call, message>>

\* The calls of the running test that timed out, once its call `call` did
\* (timed_out) or did not.
Timeouts(timed_out) ==
    (IF call = 1 THEN {} ELSE timeouts) \cup (IF timed_out THEN {call} ELSE {})

\* ------------------------------------------------------ validator's actions
\* connect(): websockets.connect succeeds; run_all_tests goes on to the
\* first test's first call.
ConnectOk ==
    /\ entry = Validator
    /\ pc = "connect"
    /\ websocket' = "open"
    /\ test' = 1
    /\ call' = 1
    /\ message' = TestCall(1, 1, None, request_id + 1)
    /\ pc' = "send"
    /\ UNCHANGED <<entry, args, simVars, original_value, all_passed, channel, wire, resolved,
                   store, srv_readonly, results, test_results, summary,
                   restore_reported, exit_code, forwarded, timeouts,
                   suite_timed_out, faults>>

\* connect(): websockets.connect raises; connect returns False,
\* run_all_tests returns 1 and main goes to its finally.
ConnectRefused ==
    /\ entry = Validator
    /\ pc = "connect"
    /\ exit_code' = 1
    /\ pc' = "disconnect"
    /\ UNCHANGED <<entry, args, simVars, websocket, message, channel, wire, resolved, store,
                   srv_readonly, progVars, forwarded, timeouts,
                   suite_timed_out, faults>>

\* Send as it would be if send_* returned without awaiting recv().
SendNoAwait ==
    /\ entry = Validator
    /\ pc = "send"
    /\ websocket = "open"
    /\ wire' = Append(wire, message)
    /\ timeouts' = Timeouts(FALSE)
    /\ Deliver(Empty)
    /\ UNCHANGED <<entry, args, simVars, websocket, channel, resolved, store,
                   srv_readonly, suite_timed_out, faults>>

\* send_*: `await self.websocket.send(json.dumps(message))` completes.  The
\* server gets the call and decides its reply.
Send ==
    /\ entry = Validator
    /\ pc = "send"
    /\ websocket = "open"
    /\ wire' = Append(wire, message)
    /\ \E rep \in ServerReplies(message, store, srv_readonly) :
          /\ rep.fault => faults < MaxFaults
          /\ faults' = IF rep.fault THEN faults + 1 ELSE faults
          /\ channel' = IF rep.replied THEN Append(channel, rep.msg) ELSE channel
          /\ store' = rep.store
    /\ pc' = "recv"
    /\ UNCHANGED <<entry, args, simVars, websocket, message, resolved, srv_readonly, progVars,
                   exit_code, forwarded, timeouts, suite_timed_out>>

\* send_*: websocket.send raises (the connection dropped, now or before);
\* `except Exception` returns {}.  Nothing is put on the connection.
SendFails ==
    /\ entry = Validator
    /\ pc = "send"
    /\ websocket \in {"open", "dropped"}
    /\ websocket = "open" => faults < MaxFaults
    /\ faults' = IF websocket = "open" THEN faults + 1 ELSE faults
    /\ websocket' = "dropped"
    /\ channel' = <<>>
    /\ timeouts' = Timeouts(FALSE)
    /\ Deliver(Empty)
    /\ UNCHANGED <<entry, args, simVars, wire, resolved, store, srv_readonly, suite_timed_out>>

\* send_*: recv() returns the next inbound message within the deadline;
\* json.loads(response) is returned, whatever id it carries.
RecvMessage ==
    /\ entry = Validator
    /\ pc = "recv"
    /\ channel # <<>>
    /\ channel' = Tail(channel)
    /\ resolved' = resolved + 1
    /\ timeouts' = Timeouts(FALSE)
    /\ Deliver(Head(channel))
    /\ UNCHANGED <<entry, args, simVars, websocket, wire, store, srv_readonly, suite_timed_out,
                   faults>>

\* send_*: asyncio.wait_for(recv(), timeout=10.0) expires; {} is returned.
\* A reply the server sent stays on the connection and arrives late (a
\* deviation; no reply at all was counted when the server chose it).
RecvTimeout ==
    /\ entry = Validator
    /\ pc = "recv"
    /\ channel # <<>> => faults < MaxFaults
    /\ faults' = IF channel # <<>> THEN faults + 1 ELSE faults
    /\ resolved' = resolved + 1
    /\ timeouts' = Timeouts(TRUE)
    /\ Deliver(Empty)
    /\ UNCHANGED <<entry, args, simVars, websocket, channel, wire, store, srv_readonly,
                   suite_timed_out>>

\* send_*: recv() raises ConnectionClosed; `except Exception` returns {}.
RecvDrop ==
    /\ entry = Validator
    /\ pc = "recv"
    /\ faults < MaxFaults
    /\ faults' = faults + 1
    /\ websocket' = "dropped"
    /\ channel' = <<>>
    /\ timeouts' = Timeouts(FALSE)
    /\ Deliver(Empty)
    /\ UNCHANGED <<entry, args, simVars, wire, resolved, store, srv_readonly, suite_timed_out>>

\* main: asyncio.wait_for(validator.run_all_tests(), timeout) expires while
\* run_all_tests is at an await; it is cancelled and main returns 1.
SuiteTimeout ==
    /\ entry = Validator
    /\ pc \in {"connect", "send", "recv"}
    /\ suite_timed_out' = TRUE
    /\ exit_code' = 1
    /\ pc' = "disconnect"
    /\ UNCHANGED <<entry, args, simVars, websocket, message, channel, wire, resolved, store,
                   srv_readonly, progVars, forwarded, timeouts, faults>>

\* Disconnect as it would be if disconnect() did not close the websocket.
DisconnectSkipsClose ==
    /\ pc = "disconnect"
    /\ pc' = "done"
    /\ UNCHANGED <<entry, args, simVars, websocket, message, channel, wire, resolved,
                   store, srv_readonly, progVars, exit_code, forwarded, timeouts,
                   suite_timed_out, faults>>

\* main's finally: disconnect() closes the websocket if there is one.
Disconnect ==
    /\ pc = "disconnect"
    /\ websocket' = IF websocket # "none" THEN "closed" ELSE websocket
    /\ pc' = "done"
    /\ UNCHANGED <<entry, args, simVars, message, channel, wire, resolved, store,
                   srv_readonly, progVars, exit_code, forwarded, timeouts,
                   suite_timed_out, faults>>

\* ------------------------------------------------------ simulator's actions
GoSend(st, msg) ==
    /\ step' = st
    /\ message' = msg
    /\ pc' = "send"
    /\ UNCHANGED exit_code

\* An exception no handler catches: run_tests ends, main's finally runs and
\* the process exits with status 1.
Crash ==
    /\ exit_code' = 1
    /\ pc' = "disconnect"
    /\ UNCHANGED <<step, message>>

\* run_tests: connect() succeeds; send_boot_notification builds its message.
SimConnectOk ==
    /\ entry = Simulator
    /\ pc = "connect"
    /\ websocket' = "open"
    /\ GoSend("boot", BootNotification(request_id + 1))
    /\ UNCHANGED <<entry, args, progVars, channel, wire, resolved, store, srv_readonly,
                   forwarded, timeouts, suite_timed_out, faults,
                   transaction_id, energy_wh, ticks>>

\* run_tests: websockets.connect raises; nothing catches it.
SimConnectRefused ==
    /\ entry = Simulator
    /\ pc = "connect"
    /\ Crash
    /\ UNCHANGED <<entry, args, progVars, websocket, channel, wire, resolved, store,
                   srv_readonly, forwarded, timeouts, suite_timed_out, faults,
                   transaction_id, energy_wh, ticks>>

\* `await self.websocket.send(json.dumps(message))` completes.
SimSend ==
    /\ entry = Simulator
    /\ pc = "send"
    /\ websocket = "open"
    /\ wire' = Append(wire, message)
    /\ \E rep \in ServerReplies(message, store, srv_readonly) :
          /\ rep.fault => faults < MaxFaults
          /\ faults' = IF rep.fault THEN faults + 1 ELSE faults
          /\ channel' = IF rep.replied THEN Append(channel, rep.msg) ELSE channel
          /\ store' = rep.store
    /\ pc' = "recv"
    /\ UNCHANGED <<entry, args, progVars, simVars, websocket, message, resolved,
                   srv_readonly, exit_code, forwarded, timeouts, suite_timed_out>>

\* websocket.send raises (the connection dropped); nothing catches it.
SimSendFails ==
    /\ entry = Simulator
    /\ pc = "send"
    /\ websocket = "open"
    /\ faults < MaxFaults
    /\ faults' = faults + 1
    /\ websocket' = "dropped"
    /\ channel' = <<>>
    /\ Crash
    /\ UNCHANGED <<entry, args, progVars, wire, resolved, store, srv_readonly,
                   forwarded, timeouts, suite_timed_out, transaction_id,
                   energy_wh, ticks>>

\* `response = await self.websocket.recv()` raises ConnectionClosed.
SimRecvDrop ==
    /\ entry = Simulator
    /\ pc = "recv"
    /\ faults < MaxFaults
    /\ faults' = faults + 1
    /\ websocket' = "dropped"
    /\ channel' = <<>>
    /\ Crash
    /\ UNCHANGED <<entry, args, progVars, wire, resolved, store, srv_readonly,
                   forwarded, timeouts, suite_timed_out, transaction_id,
                   energy_wh, ticks>>

\* An iteration of simulate_charging_session's loop up to its call's send.
Tick(tx) ==
    \E dp \in PowerVariations, dv \in VoltageVariations, dt \in TemperatureVariations :
        /\ energy_wh' = TickEnergy(energy_wh, dp)
        /\ ticks' = ticks + 1
        /\ GoSend("tick", TickMessage(request_id + 1, energy_wh, dp, dv, dt, tx))

\* run_tests' "Test 3": send_meter_values(10000, 55000, 240, 230).
HighPowerAlert ==
    GoSend("meter3",
           MeterValues(request_id + 1, 10000, 55000, 2400, 2300, NoNum, transaction_id))

\* stop_transaction as it would be if it sent the session's start energy as
\* meterStop.
stop_transaction_meter_start ==
    IF ~TruthyNum(transaction_id)
    THEN HighPowerAlert
    ELSE GoSend("stop", StopTransaction(request_id + 1, transaction_id,
                                        start_energy_wh))

\* stop_transaction as it would be without its `if not self.transaction_id:
\* return`.
stop_transaction_unguarded ==
    GoSend("stop", StopTransaction(request_id + 1, transaction_id, IntWh(energy_wh)))

\* simulate_charging_session's stop_transaction(int(energy_wh)): without a
\* transaction id it returns at once and run_tests goes on to its "Test 3";
\* with one it builds its call.
stop_transaction ==
    IF ~TruthyNum(transaction_id)
    THEN HighPowerAlert
    ELSE GoSend("stop", StopTransaction(request_id + 1, transaction_id,
                                        IntWh(energy_wh)))

\* `response = await self.websocket.recv()` returns the next inbound message
\* (there is no deadline); the simulator runs on to the send of its next call
\* or to the end of run_tests.
SimRecv ==
    /\ entry = Simulator
    /\ pc = "recv"
    /\ channel # <<>>
    /\ channel' = Tail(channel)
    /\ resolved' = resolved + 1
    /\ forwarded' = Forward(Head(channel))
    /\ LET r == Head(channel)
       IN  \/ /\ step = "boot"
              /\ GoSend("meter1",
                        MeterValues(request_id + 1, 5000, 3700, 160, 2300, 250,
                                    transaction_id))
              /\ UNCHANGED <<transaction_id, energy_wh, ticks>>
           \/ /\ step = "meter1"
              /\ energy_wh' = start_energy_wh * SecondsPerHour
              /\ GoSend("start", StartTransaction(request_id + 1))
              /\ UNCHANGED <<transaction_id, ticks>>
           \/ /\ step = "start"
              /\ Raises(r) \/ (IsCallResult(r) /\ r.transactionId = NoNum)
              /\ Crash
              /\ UNCHANGED <<transaction_id, energy_wh, ticks>>
           \/ /\ step = "start"
              /\ IsCallResult(r) /\ r.transactionId # NoNum
              /\ transaction_id' = r.transactionId
              /\ Tick(r.transactionId)
           \/ /\ step = "start"
              /\ ~Raises(r) /\ ~IsCallResult(r)
              /\ UNCHANGED transaction_id
              /\ Tick(transaction_id)
           \/ /\ step = "tick"
              /\ ticks < MaxTicks
              /\ ticks < duration_seconds \div interval_seconds
              /\ UNCHANGED transaction_id
              /\ Tick(transaction_id)
           \/ /\ step = "tick"
              /\ stop_transaction
              /\ UNCHANGED <<transaction_id, energy_wh, ticks>>
           \/ /\ step = "stop"
              /\ HighPowerAlert
              /\ UNCHANGED <<transaction_id, energy_wh, ticks>>
           \/ /\ step = "meter3"
              /\ exit_code' = 0
              /\ pc' = "disconnect"
              /\ UNCHANGED <<step, message, transaction_id, energy_wh, ticks>>
    /\ UNCHANGED <<entry, args, progVars, websocket, wire, store, srv_readonly,
                   timeouts, suite_timed_out, faults>>

Next ==
    \/ SimConnectOk
    \/ SimConnectRefused
    \/ SimSend
    \/ SimSendFails
    \/ SimRecv
    \/ SimRecvDrop
    \/ ConnectOk
    \/ ConnectRefused
    \/ Send
    \/ SendFails
    \/ RecvMessage
    \/ RecvTimeout
    \/ RecvDrop
    \/ SuiteTimeout
    \/ Disconnect

Spec == Init /\ [][Next]_vars

\* ------------------------------------------- send_meter_values on its own
\* MeterValueSimulator.send_meter_values called on a connected simulator with
\* any arguments: a whole number of Wh and W, and for each optional sample
\* None, zero or a value; self.transaction_id is None, 0 or an id.
InitMeter ==
    /\ entry = "send_meter_values"
    /\ args \in { Args(e, p, c, v, t) :
                    e \in {0, 5000}, p \in {0, 3700}, c \in {NoNum, 0, 160},
                    v \in {NoNum, 0, 2300}, t \in {NoNum, 0, 250} }
    /\ transaction_id \in {NoNum} \cup TxIds
    /\ pc = "send"
    /\ websocket = "open"
    /\ test = 0
    /\ call = 0
    /\ original_value = None
    /\ all_passed = TRUE
    /\ message = NoCall
    /\ channel = <<>>
    /\ wire = <<>>
    /\ resolved = 0
    /\ store = OrigStore
    /\ srv_readonly = readonly_keys
    /\ results = <<>>
    /\ test_results = <<>>
    /\ summary = <<>>
    /\ restore_reported = FALSE
    /\ exit_code = -1
    /\ forwarded = NoForward
    /\ timeouts = {}
    /\ suite_timed_out = FALSE
    /\ faults = 0
    /\ step = None
    /\ energy_wh = 0
    /\ ticks = 0

\* send_meter_values builds its message and
\* `await self.websocket.send(json.dumps(message))` completes.
SendMeterValues ==
    /\ entry = "send_meter_values"
    /\ pc = "send"
    /\ message' = MeterValues(request_id + 1, args.energy_wh, args.power_w,
                              args.current_a, args.voltage_v,
                              args.temperature_c, transaction_id)
    /\ wire' = Append(wire, message')
    /\ pc' = "recv"
    /\ UNCHANGED <<entry, args, progVars, simVars, websocket, channel, resolved,
                   store, srv_readonly, exit_code, forwarded, timeouts,
                   suite_timed_out, faults>>

NextMeter == SendMeterValues

SpecMeter == InitMeter /\ [][NextMeter]_vars

\* ------------------------------------------------------------------ claims
Finished == entry = Validator /\ Len(results) = NumTests

\* C1: the call layer never hands a caller a message whose id is not the id
\* generated for the call that is outstanding; such a message is a protocol
\* violation, not the call's response.
C1_OnlyOwnIdForwarded ==
    ~forwarded.empty => forwarded.id = forwarded.req

\* C2: the summary of run_all_tests has exactly one line for each of the 8
\* scenarios, and the PASS/FAIL next to a scenario's name is that scenario's
\* own outcome (stated for the runs in which neither the server nor the
\* connection deviates: the statuses the server gives decide the outcomes).
C2_SummaryEnumeratesEveryScenario ==
    (Finished /\ faults = 0) =>
        /\ Len(summary) = NumTests
        /\ \A i \in 1..Len(summary) :
              /\ summary[i].name = TestNames[i]
              /\ summary[i].pass = results[i]

\* C3: the validator's exit status is 0 if and only if the connection was
\* established and each of the 8 scenarios passed; otherwise (a scenario
\* failed or raised, the connection was refused, the suite timeout expired)
\* it is 1.
C3_ExitStatus ==
    (entry = Validator /\ pc \in {"disconnect", "done"}) =>
        /\ exit_code \in {0, 1}
        /\ exit_code = 0 <=>
              /\ test >= 1
              /\ ~suite_timed_out
              /\ Len(results) = NumTests
              /\ \A i \in 1..Len(results) : results[i]

C3_Witness ==
    /\ entry = Validator
    /\ pc = "done"
    /\ exit_code = 0
    /\ Len(results) = NumTests

\* The calls whose response decides their test's verdict: all but
\* test_change_configuration's read of the original value and its restore,
\* and test_csv_validation's invalid-token change.
DecidingCall(t, c) == ~((t = 3 /\ c \in {1, 4}) \/ (t = 6 /\ c = 2))

\* A step that ends the running test, and a step in which a call's deadline
\* expires.
TestCompletes == entry = Validator /\ Len(results') = Len(results) + 1
TimeoutConsumed ==
    entry = Validator /\ resolved' = resolved + 1 /\ forwarded'.empty

\* C4 as stated: whichever call of a scenario gets no response within its
\* deadline, the scenario fails (and the run goes on).
C4_AnyTimeoutFailsScenario ==
    [][(TestCompletes /\ timeouts' # {}) => ~results'[Len(results')]]_vars

\* C4, amended: a timeout of a call that decides its scenario's verdict makes
\* the scenario fail, and after a timeout of any call the run goes on (to the
\* next call, the next scenario, or the summary after the last one).
C4_DecidingTimeoutFailsScenario ==
    [][/\ (TestCompletes /\ \E c \in timeouts' : DecidingCall(test, c))
           => ~results'[Len(results')]
       /\ TimeoutConsumed
           => \/ pc' = "send"
              \/ pc' = "disconnect" /\ Len(results') = NumTests /\ exit_code' = 1
      ]_vars

C4_Witness ==
    /\ entry = Validator
    /\ pc = "send"
    /\ test = 5
    /\ call = 1
    /\ timeouts = {1}
    /\ Len(results) = 4
    /\ ~results[4]

\* C5: a transport error is fatal to the run: once the connection dropped
\* the run starts no further scenario and goes to teardown.
C5_TransportErrorIsFatal ==
    [][(entry = Validator /\ websocket' = "dropped")
          => (test' = test /\ pc' \in {"disconnect", "done"})]_vars

\* C6: when the suite timeout expires, whatever is in flight, the validator
\* starts nothing further, exits with status 1 and closes the connection; the
\* connection is closed on every path out of a run that opened it.
C6_SuiteTimeoutTeardown ==
    /\ [](suite_timed_out => (pc \in {"disconnect", "done"} /\ exit_code = 1))
    /\ []((entry = Validator /\ pc = "done" /\ test >= 1) => websocket = "closed")
    /\ [][suite_timed_out =>
             UNCHANGED <<test, call, message, wire, results, test_results>>]_vars

C6_Witness ==
    /\ suite_timed_out
    /\ pc = "done"
    /\ websocket = "closed"
    /\ test = 3
    /\ Len(wire) = resolved + 1

\* C7: every call completes: a call that waits for a server that sent
\* nothing can be resolved by its deadline, in both scripts.
C7_EveryCallCompletes ==
    (pc = "recv" /\ channel = <<>>) => ENABLED (Next /\ resolved' = resolved + 1)

\* C8: calls are strictly sequential: at most one call is outstanding (on the
\* connection and not yet resolved by a message or a timeout), a waiting call
\* is the one message sent last, every call sent before a send is resolved,
\* and each call is put on the connection once.
C8_StrictlySequential ==
    /\ Len(wire) - resolved \in {0, 1}
    /\ pc = "recv" => (Len(wire) = resolved + 1 /\ wire[Len(wire)] = message)
    /\ (pc = "send" /\ websocket = "open") => Len(wire) = resolved
    /\ \A i, j \in 1..Len(wire) : i < j => wire[i].id < wire[j].id

C8_Witness ==
    /\ entry = Validator
    /\ pc = "recv"
    /\ Len(wire) = 3
    /\ resolved = 2
    /\ forwarded.empty
    /\ channel # <<>>

\* C9: a server that answers a change of a read-only key (either of
\* readonly_keys) with anything but Rejected cannot get exit status 0
\* (stated for the runs in which nothing else deviates).
C9_ReadonlyEnforced ==
    (entry = Validator /\ exit_code = 0 /\ faults = 0)
        => readonly_keys \subseteq srv_readonly

\* The last ChangeConfiguration the harness put on the connection for key k
\* wrote value v (vacuous when there is none).
Max(S) == CHOOSE x \in S : \A y \in S : y <= x
LastWrite(k, v) ==
    LET writes == {i \in 1..Len(wire) :
                     /\ wire[i].action = "ChangeConfiguration"
                     /\ wire[i].payload.key = k}
    IN  writes # {} => wire[Max(writes)].payload.value = v

\* C10: after the run every shared key a scenario changed holds the value it
\* had before the run, the oracle having written that value back (a key that
\* does not hold it was at least last written with it).  Stated for the runs
\* in which neither the server nor the connection deviates.
C10_RestoredAfterRun ==
    (Finished /\ pc = "done" /\ faults = 0) =>
        \A k \in StoredKeys :
            store[k] = OrigValue(k) \/ LastWrite(k, OrigValue(k))

\* What send_get_configuration / send_change_configuration returns in a step
\* that resolves a call: the inbound message recv() returned, or {} after a
\* timeout or an exception.
Answer ==
    IF pc = "recv" /\ channel # <<>> /\ channel' = Tail(channel)
       /\ websocket' = websocket
    THEN Head(channel) ELSE Empty

ChangeSucceeded(r) == IsCallResult(r) /\ r.status \in {"Accepted", "RebootRequired"}

\* The step in which call c of test t returns to the test.
Returns(t, c) ==
    /\ entry = Validator /\ test = t /\ call = c
    /\ pc \in {"send", "recv"}
    /\ forwarded' # forwarded \/ resolved' # resolved \/ websocket' = "dropped"
    /\ ~suite_timed_out'

\* C11: when the ChangeConfiguration that writes the original value back is
\* rejected, answered with an error envelope or times out, the harness does
\* not report the value as restored.
C11_FailedRestoreSurfaced ==
    [][(Returns(3, 4) /\ pc = "recv" /\ websocket' = "open"
            /\ ~ChangeSucceeded(Answer)) => ~restore_reported']_vars

\* The entry for key k in the configurationKey list cfg has value v.
HasValue(cfg, k, v) == \E i \in 1..Len(cfg) : cfg[i].key = k /\ cfg[i].value = v

\* C12: the persistence scenario passes, and the change scenario's
\* verification step succeeds, only if the GetConfiguration([key]) that
\* follows the accepted change returns a result whose entry for that same
\* key has the value written (stated for responses that carry the call's id).
C12_RoundTripSameKey ==
    [][/\ (Returns(8, 2) /\ Answer.id = request_id
            /\ TestCompletes /\ results'[Len(results')])
           => (IsCallResult(Answer)
               /\ HasValue(Answer.configurationKey, MeterValueSampleInterval, "45"))
       /\ (Returns(3, 3) /\ Answer.id = request_id
            /\ (call' = 4 \/ (TestCompletes /\ results'[Len(results')])))
           => (IsCallResult(Answer)
               /\ HasValue(Answer.configurationKey, HeartbeatInterval, "900"))
      ]_vars

\* C13: the specific-keys scenario passes only if the response lists
\* UnknownKey in the unknown list and not among the known keys, the known
\* keys being the two implemented names requested (stated for responses that
\* carry the call's id).
C13_UnknownKeyExcluded ==
    [][(Returns(2, 1) /\ Answer.id = request_id
            /\ TestCompletes /\ results'[Len(results')])
          => /\ IsCallResult(Answer)
             /\ UnknownKey \in Answer.unknownKey
             /\ UnknownKey \notin KeyNames(Answer.configurationKey)
             /\ KeyNames(Answer.configurationKey)
                    = {HeartbeatInterval, MeterValueSampleInterval}
      ]_vars

\* The response r rejects a change.
Rejecting(r) == IsCallResult(r) /\ r.status \in {"Rejected", "NotSupported"}

\* The last n calls on the connection are ChangeConfiguration calls for the
\* first n of test_cases, in their order.
Exercised(n) ==
    /\ Len(wire) >= n
    /\ \A i \in 1..n :
          LET m == wire[Len(wire) - n + i]
          IN  /\ m.action = "ChangeConfiguration"
              /\ m.payload.key = test_cases[i][1]
              /\ m.payload.value = test_cases[i][2]

\* C14: the invalid-value scenario passes only if each of its four cases is
\* answered Rejected or NotSupported; a case answered Accepted,
\* RebootRequired, with an error envelope or not at all makes the scenario
\* fail, and the cases after it are still put to the server.
C14_InvalidValuesRejected ==
    [][/\ (Returns(5, call) /\ ~Raises(Answer) /\ ~Rejecting(Answer))
           => IF call < Len(test_cases)
              THEN test' = 5 /\ call' = call + 1 /\ pc' = "send" /\ ~all_passed'
              ELSE TestCompletes /\ ~results'[Len(results')]
       /\ (entry = Validator /\ test = 5 /\ ~all_passed)
           => IF test' = 5 THEN ~all_passed' ELSE ~results'[Len(results')]
       /\ (Returns(5, call) /\ TestCompletes /\ results'[Len(results')])
           => (call = Len(test_cases) /\ all_passed /\ Rejecting(Answer))
       /\ (Returns(5, call) /\ TestCompletes /\ ~Raises(Answer) /\ websocket' = "open")
           => Exercised(Len(test_cases))
      ]_vars

\* The server accepted the first case; the other three were put to it and the
\* scenario failed.
C14_Witness ==
    /\ entry = Validator
    /\ test = 6 /\ call = 1 /\ pc = "send"
    /\ faults = 0
    /\ store[HeartbeatInterval] = "not-a-number"
    /\ Exercised(Len(test_cases))
    /\ Len(results) = 5 /\ ~results[5]

\* C15: once the valid CSV value was accepted, the CSV scenario passes
\* whatever the server answers to the change that carries an invalid token: any
\* status, an error envelope, or nothing within the deadline.
C15_InvalidTokenOnlyLogged ==
    [][/\ (Returns(6, 1) /\ call' = 2) => ChangeSucceeded(Answer)
       /\ (Returns(6, 2) /\ ~Raises(Answer))
           => /\ TestCompletes
              /\ results'[Len(results')]
              /\ test_results'[Len(test_results')] = <<TestNames[6], TRUE>>
      ]_vars

\* The scenario passed although its invalid-token change timed out.
C15_Witness ==
    /\ entry = Validator
    /\ test = 7 /\ call = 1 /\ pc = "send"
    /\ timeouts = {2}
    /\ Len(results) = 6 /\ results[6]

\* C16: the reboot-required scenario passes if and only if the server answers
\* its ChangeConfiguration of WebSocketPingInterval with a result whose status
\* is Accepted or RebootRequired; another status, an error envelope or a
\* timeout makes it fail.
C16_RebootRequiredOrAccepted ==
    [][Returns(7, 1)
          => /\ TestCompletes
             /\ results'[Len(results')] <=> ChangeSucceeded(Answer)
      ]_vars

\* The scenario passed and the server holds the value it was sent.
C16_Witness ==
    /\ entry = Validator
    /\ test = 8 /\ call = 1 /\ pc = "send"
    /\ Len(results) = 7 /\ results[7]
    /\ store[WebSocketPingInterval] = "120"
    /\ \E i \in 1..Len(test_results) : test_results[i] = <<TestNames[7], TRUE>>

\* C17: a MeterValues tick of the charging session is issued only after
\* StartTransaction succeeded and the transaction id the server assigned was
\* stored; after an error envelope, or a result without an id, no tick is
\* issued.
C17_TicksOnlyInActive ==
    (entry = Simulator /\ step = "tick") => transaction_id # NoNum

\* The StopTransaction calls put on the connection.
Stops == {i \in 1..Len(wire) : wire[i].action = "StopTransaction"}

\* C18: whenever StartTransaction succeeded, whatever transaction id the
\* server assigned (the integer 0 included), stopping the session issues
\* exactly one StopTransaction call, and it carries that id.
C18_StopInActive ==
    (entry = Simulator /\ step = "meter3" /\ transaction_id # NoNum /\ faults = 0)
        => /\ Cardinality(Stops) = 1
           /\ \A i \in Stops : wire[i].payload.transactionId = transaction_id

\* C19: stopping a session for which no transaction was ever started sends
\* nothing on the connection, raises nothing and leaves the simulator's state
\* as it was: the run goes from the last tick's response straight on to
\* run_tests' next call.
C19_StopOnIdleIsNoOp ==
    /\ []((entry = Simulator /\ transaction_id = NoNum) => Stops = {})
    /\ [][(entry = Simulator /\ step = "tick" /\ step' # "tick" /\ pc = "recv"
             /\ websocket' = "open" /\ transaction_id = NoNum)
           => /\ step' = "meter3" /\ pc' = "send"
              /\ wire' = wire
              /\ UNCHANGED <<transaction_id, energy_wh, ticks, exit_code, websocket>>
         ]_vars

\* The session had no transaction, ticked, and the run is at its last call.
C19_Witness ==
    /\ entry = Simulator
    /\ step = "meter3" /\ pc = "recv"
    /\ transaction_id = NoNum
    /\ ticks >= 1
    /\ Stops = {}

\* The session is Active when call i is put on the connection: a
\* StartTransaction before it succeeded and no StopTransaction was issued
\* before it.
ActiveAt(i) ==
    /\ transaction_id # NoNum
    /\ \E j \in 1..(i - 1) : wire[j].action = "StartTransaction"
    /\ \A j \in 1..(i - 1) : wire[j].action # "StopTransaction"

\* C20: a MeterValues message has a transactionId field if and only if the
\* session is Active when it is sent, and the field then holds the id the
\* server assigned; before a start and after the stop it has none.
C20_MeterValuesCarryActiveId ==
    (entry = Simulator /\ faults = 0) =>
        \A i \in 1..Len(wire) :
            wire[i].action = "MeterValues" =>
                /\ wire[i].payload.transactionId # NoNum <=> ActiveAt(i)
                /\ ActiveAt(i) => wire[i].payload.transactionId = transaction_id

\* The MeterValues call of the session's k-th tick: on the connection after
\* BootNotification, the first MeterValues and StartTransaction, or built and
\* not sent yet.
TickAt(k) == IF 3 + k <= Len(wire) THEN wire[3 + k] ELSE message

\* The energy and the power a MeterValues call reports.
EnergyOf(m) == m.payload.sampledValue[1].value.str
PowerOf(m) == m.payload.sampledValue[2].value.str

\* The start energy plus the sum of power * interval over the first k ticks,
\* in 1/3600 Wh.
RECURSIVE EnergyAfter(_)
EnergyAfter(k) ==
    IF k = 0 THEN start_energy_wh * SecondsPerHour
    ELSE EnergyAfter(k - 1) + PowerOf(TickAt(k)) * interval_seconds

\* C21: over the ticks of a session the cumulative energy never decreases, it
\* is the start energy (1000 Wh) plus the sum of power * interval / 3600 over
\* the ticks so far, and the whole-number energies of successive MeterValues
\* calls never decrease.
C21_EnergyMonotonic ==
    /\ []((entry = Simulator /\ ticks >= 1) =>
            /\ energy_wh = EnergyAfter(ticks)
            /\ \A k \in 1..ticks :
                  /\ TickAt(k).action = "MeterValues"
                  /\ EnergyOf(TickAt(k)) = IntWh(EnergyAfter(k))
                  /\ EnergyOf(TickAt(k)) >= start_energy_wh
                  /\ k > 1 => EnergyOf(TickAt(k)) >= EnergyOf(TickAt(k - 1)))
    /\ [][(entry = Simulator /\ ticks' = ticks + 1)
             => (energy_wh' >= energy_wh /\ energy_wh >= start_energy_wh * SecondsPerHour)
         ]_vars

\* Two ticks with different powers were sent.
C21_Witness ==
    /\ entry = Simulator
    /\ ticks = 2 /\ step = "stop" /\ pc = "recv"
    /\ PowerOf(TickAt(1)) < PowerOf(TickAt(2))
    /\ EnergyOf(TickAt(1)) < EnergyOf(TickAt(2))

\* The entries the claim expects for the arguments a: energy and power, then
\* one entry for each optional argument that was supplied (is not None).
ExpectedSamples(a) ==
    << Sample(a.energy_wh, "Energy.Active.Import.Register", "Wh"),
       Sample(a.power_w, "Power.Active.Import", "W") >>
    \o (IF a.current_a # NoNum
        THEN << Sample(a.current_a, "Current.Import", "A") >> ELSE <<>>)
    \o (IF a.voltage_v # NoNum
        THEN << Sample(a.voltage_v, "Voltage", "V") >> ELSE <<>>)
    \o (IF a.temperature_c # NoNum
        THEN << Sample(a.temperature_c, "Temperature", "Celsius") >> ELSE <<>>)

\* C22: send_meter_values emits the energy entry, the power entry, and then
\* one entry for each of current, voltage and temperature that the caller
\* supplied, in that order, with the string form of the value; a sample is
\* left out only when its argument was not supplied, so a supplied 0 is
\* reported.
C22_SuppliedSamplesReported ==
    (entry = "send_meter_values" /\ pc = "recv")
        => message.payload.sampledValue = ExpectedSamples(args)

\* The StopTransaction call stop and the MeterValues call last of its session
\* agree: meterStop is at least meterStart, and it is the energy the last tick
\* reported (meterStart itself when there was no tick).
MeterConsistent(stop, last) ==
    /\ wire[3].action = "StartTransaction"
    /\ wire[3].payload.meterStart = start_energy_wh
    /\ stop.action = "StopTransaction"
    /\ stop.payload.meterStop >= wire[3].payload.meterStart
    /\ IF ticks >= 1
       THEN last.action = "MeterValues" /\ stop.payload.meterStop = EnergyOf(last)
       ELSE stop.payload.meterStop = wire[3].payload.meterStart

\* C23: the meterStop sent in StopTransaction is never smaller than the
\* meterStart sent in StartTransaction (1000), and it equals the energy
\* reported in the session's last MeterValues call (meterStart when no tick
\* was sent).
C23_MeterStopConsistent ==
    entry = Simulator =>
        /\ step = "stop" => MeterConsistent(message, TickAt(ticks))
        /\ \A i \in Stops : MeterConsistent(wire[i], wire[i - 1])

\* A session of two ticks was stopped.
C23_Witness ==
    /\ entry = Simulator
    /\ step = "meter3"
    /\ ticks = 2
    /\ \E i \in Stops : wire[i].payload.meterStop > start_energy_wh

====
